---- MODULE Spec2Model ----
(***************************************************************************)
(* Peer-wire framing of src/peer/connection.rs: the Frame codec            *)
(* (write_frame / parse_frame), the read_frame loop of one Connection      *)
(* reading from a TCP stream whose other end is an arbitrary remote peer,  *)
(* the write side with its BufWriter, and Connection::handshake, at one    *)
(* end of the stream and at both.                                          *)
(***************************************************************************)
EXTENDS Integers, Sequences, FiniteSets, TLC

(***************************************************************************)
(* Bounds of the model.                                                    *)
(***************************************************************************)
\* The peer sends at most MaxItems items (frames, keep-alives, fragments)
\* of at most MaxBytes bytes together, or else one single large item.
MaxItems == 2
MaxBytes == 17
\* Up to FineLimit unread bytes, one stream read delivers any non-empty
\* prefix of them; of more unread bytes it leaves at most MaxTail behind.
FineLimit == 64
MaxTail == 2
\* write_frame is called at most MaxWrites times.
MaxWrites == 2
\* The length N of the protocol identifier in the handshake packet.
PstrLen == 19

(***************************************************************************)
(* Program constants.                                                      *)
(***************************************************************************)
U32_SIZE == 4
FRAME_MAX == 65536

(***************************************************************************)
(* Byte strings (Bytes, BytesMut, the stream).  A byte string is held as   *)
(* its part up to its last non-zero byte (head) and the number of zero     *)
(* bytes that follow it (zeros): one value per byte string, and a payload  *)
(* of 64 KiB of zero bytes is a small value.                               *)
(***************************************************************************)
RECURSIVE TrimZeros(_)
TrimZeros(s) ==
  IF s # <<>> /\ s[Len(s)] = 0 THEN TrimZeros(SubSeq(s, 1, Len(s) - 1)) ELSE s

\* The byte string of the bytes s.
Bytes(s) == LET h == TrimZeros(s) IN [head |-> h, zeros |-> Len(s) - Len(h)]

Empty == [head |-> <<>>, zeros |-> 0]
Zeros(n) == [head |-> <<>>, zeros |-> n]

\* len()
BLen(b) == Len(b.head) + b.zeros

\* The i-th byte, from 1.
At(b, i) == IF i <= Len(b.head) THEN b.head[i] ELSE 0

\* a followed by b (extend_from_slice, a stream write after another).
Cat(a, b) ==
  IF b.head = <<>>
    THEN [head |-> a.head, zeros |-> a.zeros + b.zeros]
    ELSE [head |-> a.head \o [i \in 1..a.zeros |-> 0] \o b.head, zeros |-> b.zeros]

\* The first n bytes of b, for n <= len.
Take(b, n) ==
  IF n <= Len(b.head)
    THEN Bytes(SubSeq(b.head, 1, n))
    ELSE [head |-> b.head, zeros |-> n - Len(b.head)]

\* Buf::advance(cnt): drops cnt bytes from the front, for cnt <= len.
advance(b, cnt) ==
  IF cnt <= Len(b.head)
    THEN [head |-> SubSeq(b.head, cnt + 1, Len(b.head)), zeros |-> b.zeros]
    ELSE [head |-> <<>>, zeros |-> BLen(b) - cnt]

\* u32::from_be_bytes of the first four bytes of b
from_be_bytes(b) ==
  At(b, 1) * 16777216 + At(b, 2) * 65536 + At(b, 3) * 256 + At(b, 4)

\* u32::to_be_bytes, as written by AsyncWriteExt::write_u32
to_be_bytes(n) ==
  Bytes(<< (n \div 16777216) % 256, (n \div 65536) % 256,
           (n \div 256) % 256, n % 256 >>)

\* Buf::get_u32: panics when fewer than 4 bytes remain.
get_u32(b) ==
  IF BLen(b) < 4
    THEN [ok |-> FALSE, val |-> 0, buf |-> b]
    ELSE [ok |-> TRUE, val |-> from_be_bytes(b), buf |-> advance(b, 4)]

\* Buf::get_u8: panics when the buffer is empty.
get_u8(b) ==
  IF BLen(b) < 1
    THEN [ok |-> FALSE, val |-> 0, buf |-> b]
    ELSE [ok |-> TRUE, val |-> At(b, 1), buf |-> advance(b, 1)]

\* BytesMut::split_to(at): panics when at > len.
split_to(b, at) ==
  IF at > BLen(b)
    THEN [ok |-> FALSE, val |-> Empty, buf |-> b]
    ELSE [ok |-> TRUE, val |-> Take(b, at), buf |-> advance(b, at)]

\* The writes ws of one call, in order, as they reach the stream.
RECURSIVE CatAll(_)
CatAll(ws) == IF ws = <<>> THEN Empty ELSE Cat(Head(ws), CatAll(Tail(ws)))

(***************************************************************************)
(* enum Frame                                                              *)
(***************************************************************************)
Choke == [variant |-> "Choke"]
Unchoke == [variant |-> "Unchoke"]
Interested == [variant |-> "Interested"]
NotInterested == [variant |-> "NotInterested"]
Have(index) == [variant |-> "Have", index |-> index]
Bitfield(bitfield) == [variant |-> "Bitfield", bitfield |-> bitfield]
Request(index, begin, length) ==
  [variant |-> "Request", index |-> index, begin |-> begin, length |-> length]
Piece(index, begin, chunk) ==
  [variant |-> "Piece", index |-> index, begin |-> begin, chunk |-> chunk]
Cancel(index, begin, length) ==
  [variant |-> "Cancel", index |-> index, begin |-> begin, length |-> length]

\* u8_from with the tags of Interested and NotInterested exchanged.
u8_from_swapped(frame) ==
  CASE frame.variant = "Choke" -> 0
    [] frame.variant = "Unchoke" -> 1
    [] frame.variant = "Interested" -> 3
    [] frame.variant = "NotInterested" -> 2
    [] frame.variant = "Have" -> 4
    [] frame.variant = "Bitfield" -> 5
    [] frame.variant = "Request" -> 6
    [] frame.variant = "Piece" -> 7
    [] frame.variant = "Cancel" -> 8

\* impl From<&Frame> for u8
u8_from(frame) ==
  CASE frame.variant = "Choke" -> 0
    [] frame.variant = "Unchoke" -> 1
    [] frame.variant = "Interested" -> 2
    [] frame.variant = "NotInterested" -> 3
    [] frame.variant = "Have" -> 4
    [] frame.variant = "Bitfield" -> 5
    [] frame.variant = "Request" -> 6
    [] frame.variant = "Piece" -> 7
    [] frame.variant = "Cancel" -> 8

(***************************************************************************)
(* Results of parse_frame / read_frame: crate::Result<Option<Frame>>, and  *)
(* a panic (an unwinding of the calling task) as a fourth outcome.         *)
(***************************************************************************)
OkNone == [kind |-> "None"]
OkSome(frame) == [kind |-> "Some", frame |-> frame]
Err(msg) == [kind |-> "Err", msg |-> msg]
Panic == [kind |-> "Panic"]

TooLarge == "protocol error; frame is too large"
InvalidKind == "protocol error; invalid message kind"
Reset == "connection reset by peer"

(***************************************************************************)
(* Connection::write_frame: the bytes one call hands to the stream, in     *)
(* the order of its write_u32 / write_u8 / write_all calls.  The casts     *)
(* `as u32` of the two computed lengths do not truncate here: every        *)
(* payload of the model is far shorter than 2^32 bytes.                    *)
(***************************************************************************)
\* write_frame with a length prefix that counts the payload without the tag.
write_frame_payload_len(frame) ==
  LET payload ==
        CASE frame.variant = "Have" -> to_be_bytes(frame.index)
          [] frame.variant = "Bitfield" -> frame.bitfield
          [] frame.variant \in {"Request", "Cancel"} ->
               CatAll(<< to_be_bytes(frame.index), to_be_bytes(frame.begin),
                         to_be_bytes(frame.length) >>)
          [] frame.variant = "Piece" ->
               CatAll(<< to_be_bytes(frame.index), to_be_bytes(frame.begin),
                         frame.chunk >>)
          [] OTHER -> Empty
  IN CatAll(<< to_be_bytes(BLen(payload)), Bytes(<<u8_from(frame)>>), payload >>)

write_frame(frame) ==
  CASE frame.variant = "Have" ->
         CatAll(<< to_be_bytes(5), Bytes(<<4>>), to_be_bytes(frame.index) >>)
    [] frame.variant = "Bitfield" ->
         CatAll(<< to_be_bytes(1 + BLen(frame.bitfield)),
                   Bytes(<<u8_from(frame)>>), frame.bitfield >>)
    [] frame.variant = "Request" ->
         CatAll(<< to_be_bytes(13), Bytes(<<u8_from(frame)>>),
                   to_be_bytes(frame.index), to_be_bytes(frame.begin),
                   to_be_bytes(frame.length) >>)
    [] frame.variant = "Piece" ->
         CatAll(<< to_be_bytes(9 + BLen(frame.chunk)), Bytes(<<u8_from(frame)>>),
                   to_be_bytes(frame.index), to_be_bytes(frame.begin),
                   frame.chunk >>)
    [] frame.variant = "Cancel" ->
         CatAll(<< to_be_bytes(13), Bytes(<<u8_from(frame)>>),
                   to_be_bytes(frame.index), to_be_bytes(frame.begin),
                   to_be_bytes(frame.length) >>)
    [] OTHER ->
         CatAll(<< to_be_bytes(1), Bytes(<<u8_from(frame)>>) >>)

(***************************************************************************)
(* Connection::parse_frame on the receive buffer b.  The result carries    *)
(* the returned value (res) and the buffer as the call leaves it (buf).    *)
(***************************************************************************)
\* The three get_u32 calls of the Request and Cancel arms, in field order.
get_fields3(b) ==
  LET index == get_u32(b)
      begin == get_u32(index.buf)
      length == get_u32(begin.buf)
  IN [ok |-> index.ok /\ begin.ok /\ length.ok,
      index |-> index.val, begin |-> begin.val, length |-> length.val,
      buf |-> length.buf]

\* The arm of an unknown tag n, ignoring the frame instead of failing.
invalid_kind_ignored(n, b) == [res |-> OkNone, buf |-> b]

\* The last arm of the match (line 180): an unknown tag n fails the call;
\* b is the buffer past the tag byte.
invalid_kind(n, b) == [res |-> Err(InvalidKind), buf |-> b]

\* The match on the tag byte (lines 151-181); b starts at the tag byte.
decode_frame(len, b) ==
  LET tag == get_u8(b) IN
  IF ~tag.ok THEN [res |-> Panic, buf |-> tag.buf]
  ELSE CASE tag.val = 0 -> [res |-> OkSome(Choke), buf |-> tag.buf]
    [] tag.val = 1 -> [res |-> OkSome(Unchoke), buf |-> tag.buf]
    [] tag.val = 2 -> [res |-> OkSome(Interested), buf |-> tag.buf]
    [] tag.val = 3 -> [res |-> OkSome(NotInterested), buf |-> tag.buf]
    [] tag.val = 4 ->
         LET index == get_u32(tag.buf) IN
         IF ~index.ok THEN [res |-> Panic, buf |-> index.buf]
         ELSE [res |-> OkSome(Have(index.val)), buf |-> index.buf]
    [] tag.val = 5 ->
         LET bitfield == split_to(tag.buf, len - 1) IN
         IF ~bitfield.ok THEN [res |-> Panic, buf |-> bitfield.buf]
         ELSE [res |-> OkSome(Bitfield(bitfield.val)), buf |-> bitfield.buf]
    [] tag.val = 6 ->
         LET f == get_fields3(tag.buf) IN
         IF ~f.ok THEN [res |-> Panic, buf |-> f.buf]
         ELSE [res |-> OkSome(Request(f.index, f.begin, f.length)), buf |-> f.buf]
    [] tag.val = 7 ->
         LET index == get_u32(tag.buf)
             begin == get_u32(index.buf)
         IN
         \* len - 9 on usize: below 9 a debug build panics on the
         \* subtraction, a release build wraps and split_to panics.
         IF ~index.ok \/ ~begin.ok \/ len < 9 THEN [res |-> Panic, buf |-> begin.buf]
         ELSE LET chunk == split_to(begin.buf, len - 9) IN
              IF ~chunk.ok THEN [res |-> Panic, buf |-> chunk.buf]
              ELSE [res |-> OkSome(Piece(index.val, begin.val, chunk.val)),
                    buf |-> chunk.buf]
    [] tag.val = 8 ->
         LET f == get_fields3(tag.buf) IN
         IF ~f.ok THEN [res |-> Panic, buf |-> f.buf]
         ELSE [res |-> OkSome(Cancel(f.index, f.begin, f.length)), buf |-> f.buf]
    [] OTHER -> invalid_kind(tag.val, tag.buf)

\* parse_frame comparing the buffer with len, not with U32_SIZE + len.
RECURSIVE parse_frame_short(_)
parse_frame_short(b) ==
  IF BLen(b) < U32_SIZE THEN [res |-> OkNone, buf |-> b]
  ELSE LET len == from_be_bytes(Take(b, 4)) IN
       IF len = 0 THEN parse_frame_short(get_u32(b).buf)
       ELSE IF len > FRAME_MAX THEN [res |-> Err(TooLarge), buf |-> b]
       ELSE IF BLen(b) < len THEN [res |-> OkNone, buf |-> b]
       ELSE decode_frame(len, advance(b, U32_SIZE))

\* parse_frame checking the length against FRAME_MAX only once the whole
\* frame is in the buffer.
RECURSIVE parse_frame_late(_)
parse_frame_late(b) ==
  IF BLen(b) < U32_SIZE THEN [res |-> OkNone, buf |-> b]
  ELSE LET len == from_be_bytes(Take(b, 4)) IN
       IF len = 0 THEN parse_frame_late(get_u32(b).buf)
       ELSE IF BLen(b) < U32_SIZE + len THEN [res |-> OkNone, buf |-> b]
       ELSE IF len > FRAME_MAX THEN [res |-> Err(TooLarge), buf |-> b]
       ELSE decode_frame(len, advance(b, U32_SIZE))

\* parse_frame rejecting the length FRAME_MAX itself.
RECURSIVE parse_frame_strict(_)
parse_frame_strict(b) ==
  IF BLen(b) < U32_SIZE THEN [res |-> OkNone, buf |-> b]
  ELSE LET len == from_be_bytes(Take(b, 4)) IN
       IF len = 0 THEN parse_frame_strict(get_u32(b).buf)
       ELSE IF len >= FRAME_MAX THEN [res |-> Err(TooLarge), buf |-> b]
       ELSE IF BLen(b) < U32_SIZE + len THEN [res |-> OkNone, buf |-> b]
       ELSE decode_frame(len, advance(b, U32_SIZE))

\* parse_frame returning after a keep-alive instead of parsing on.
parse_frame_stop(b) ==
  IF BLen(b) < U32_SIZE THEN [res |-> OkNone, buf |-> b]
  ELSE LET len == from_be_bytes(Take(b, 4)) IN
       IF len = 0 THEN [res |-> OkNone, buf |-> get_u32(b).buf]
       ELSE IF len > FRAME_MAX THEN [res |-> Err(TooLarge), buf |-> b]
       ELSE IF BLen(b) < U32_SIZE + len THEN [res |-> OkNone, buf |-> b]
       ELSE decode_frame(len, advance(b, U32_SIZE))

RECURSIVE parse_frame(_)
parse_frame(b) ==
  IF BLen(b) < U32_SIZE THEN [res |-> OkNone, buf |-> b]
  ELSE LET len == from_be_bytes(Take(b, 4)) IN
       IF len = 0 THEN parse_frame(get_u32(b).buf)
       ELSE IF len > FRAME_MAX THEN [res |-> Err(TooLarge), buf |-> b]
       ELSE IF BLen(b) < U32_SIZE + len THEN [res |-> OkNone, buf |-> b]
       ELSE decode_frame(len, advance(b, U32_SIZE))

(***************************************************************************)
(* The remote peer.  It is not bound to the protocol: besides frames       *)
(* encoded as write_frame encodes them it sends keep-alives, frames whose  *)
(* declared length disagrees with their tag, unknown tags, oversized       *)
(* length prefixes and fragments of frames.  Every byte it sends is below  *)
(* 128, so that each big-endian u32 read from the stream is below 2^31.    *)
(***************************************************************************)
KeepAlive == Bytes(<<0, 0, 0, 0>>)

SmallFrames ==
  { Choke, Unchoke, Interested, NotInterested,
    Have(7),
    Bitfield(Empty), Bitfield(Bytes(<<96, 1>>)),
    Request(1, 16384, 16909060),
    Piece(0, 0, Empty), Piece(258, 16384, Bytes(<<94, 45>>)),
    Cancel(1, 16384, 16909060) }

\* Bitfields whose encoding declares the lengths FRAME_MAX and FRAME_MAX + 1.
BigFrames == { Bitfield(Zeros(FRAME_MAX - 1)), Bitfield(Zeros(FRAME_MAX)) }

SmallRaw ==
  { KeepAlive,
    Cat(KeepAlive, KeepAlive),
    Bytes(<<0, 0, 0, 1, 4>>),                 \* have without its index
    Bytes(<<0, 0, 0, 5, 6, 0, 0, 0, 1>>),     \* request with one field
    Bytes(<<0, 0, 0, 1, 7>>),                 \* piece without index and begin
    Bytes(<<0, 0, 0, 1, 8>>),                 \* cancel without fields
    Bytes(<<0, 0, 0, 2, 0, 9>>),              \* choke with a surplus byte
    Bytes(<<0, 0, 0, 6, 4, 0, 0, 0, 7, 9>>),  \* have with a surplus byte
    Bytes(<<0, 0, 0, 1, 9>>),                 \* unknown tag 9
    Bytes(<<0, 0, 0, 3, 127, 1, 2>>),         \* unknown tag 127 with payload
    Bytes(<<0, 1, 0, 1>>),                    \* length prefix FRAME_MAX + 1 alone
    Bytes(<<0, 0>>),                          \* half a length prefix
    Bytes(<<0, 0, 0, 5, 4>>) }                \* have cut after its tag

\* Declared length FRAME_MAX + 1, unknown tag, all advertised bytes present.
BigRaw == { CatAll(<< to_be_bytes(FRAME_MAX + 1), Bytes(<<9>>), Zeros(FRAME_MAX) >>) }

\* An item: the bytes it puts on the stream and, for a frame a peer running
\* write_frame sends, the frame they encode.
FrameItem(frame, big) ==
  [type |-> "frame", frame |-> frame, bytes |-> write_frame(frame), big |-> big]
RawItem(bytes, big) ==
  [type |-> "raw", frame |-> [variant |-> "-"], bytes |-> bytes, big |-> big]

SmallItems ==
  {FrameItem(f, FALSE) : f \in SmallFrames} \cup {RawItem(b, FALSE) : b \in SmallRaw}
BigItems ==
  {FrameItem(f, TRUE) : f \in BigFrames} \cup {RawItem(b, TRUE) : b \in BigRaw}

(***************************************************************************)
(* State.                                                                  *)
(***************************************************************************)
VARIABLES
  wire,        \* bytes the peer has written that read_buf has not yet taken
  peerClosed,  \* the peer has shut its side of the stream
  buf,         \* Connection.buf, the receive buffer
  pc,          \* "idle": no read_frame in progress; "read": one is suspended
               \* in stream.read_buf; "panicked": the owning task unwound
  ret,         \* what the most recent read_frame call returned (Pending
               \* while it is suspended, NoCall before the first call)
  last,        \* the most recent parse_frame call: the buffer it found (in)
               \* and its result (res); the buffer it left is buf
  sent,        \* history: the items the peer has sent, in order
  nsent,       \* history: the number of bytes the peer has sent
  returned,    \* history: the frames read_frame has returned, in order
  out,         \* bytes this end has put on the stream that the other end
               \* has not yet taken
  wbuf,        \* per endpoint: the bytes its BufWriter holds back
  hs,          \* per endpoint: its handshake call (position, info hash
               \* given, the packet buffer, bytes of it read_exact filled;
               \* history: the bytes it had taken from the stream before)
  written,     \* history: the frames write_frame was called with, in order
  rx,          \* history: every byte the remote end has put on the stream
  tx           \* history: every byte this end has put on the stream

vars == <<wire, peerClosed, buf, pc, ret, last, sent, nsent, returned,
          out, wbuf, hs, written, rx, tx>>

\* What the read_frame loop and the peer of Spec leave alone.
xvars == <<out, wbuf, hs, written, rx, tx>>

\* Endpoint 1 is the Connection whose buf, pc and ret the model holds; it
\* reads wire and writes out.  Endpoint 2 is the other end of the stream
\* when that end runs Connection::handshake too; it reads out, writes wire.
Endpoints == {1, 2}

NoCall == [kind |-> "NoCall"]
Pending == [kind |-> "Pending"]

Init ==
  /\ wire = Empty
  /\ peerClosed = FALSE
  /\ buf = Empty
  /\ pc = "idle"
  /\ ret = NoCall
  /\ last = [in |-> Empty, res |-> NoCall]
  /\ sent = <<>>
  /\ nsent = 0
  /\ returned = <<>>
  /\ out = Empty
  /\ wbuf = [e \in Endpoints |-> Empty]
  /\ hs = [e \in Endpoints |->
            [pc |-> "new", info_hash |-> Empty, packet |-> Empty, filled |-> 0,
             from |-> 0]]
  /\ written = <<>>
  /\ rx = Empty
  /\ tx = Empty

(***************************************************************************)
(* Peer actions.                                                           *)
(***************************************************************************)
PeerSend(item) ==
  /\ ~peerClosed
  /\ IF item.big
       THEN sent = <<>>
       ELSE /\ Len(sent) < MaxItems
            /\ nsent + BLen(item.bytes) <= MaxBytes
  /\ wire' = Cat(wire, item.bytes)
  /\ sent' = Append(sent, item)
  /\ nsent' = nsent + BLen(item.bytes)
  /\ UNCHANGED <<peerClosed, buf, pc, ret, last, returned, xvars>>

PeerClose ==
  /\ ~peerClosed
  /\ peerClosed' = TRUE
  /\ UNCHANGED <<wire, buf, pc, ret, last, sent, nsent, returned, xvars>>

(***************************************************************************)
(* Connection::read_frame.  The loop runs parse_frame and, on Ok(None),    *)
(* suspends in stream.read_buf; a step of the model is the code between    *)
(* two suspensions.                                                        *)
(***************************************************************************)
\* Lines 98-100 on buffer b: parse_frame()? and the return of a frame.
ParseAndReturn(b) ==
  LET p == parse_frame(b) IN
  /\ last' = [in |-> b, res |-> p.res]
  /\ buf' = p.buf
  /\ CASE p.res.kind = "Some" ->
            /\ pc' = "idle"
            /\ ret' = p.res
            /\ returned' = Append(returned, p.res.frame)
       [] p.res.kind = "Err" ->
            /\ pc' = "idle"
            /\ ret' = p.res
            /\ returned' = returned
       [] p.res.kind = "Panic" ->
            /\ pc' = "panicked"
            /\ ret' = p.res
            /\ returned' = returned
       [] OTHER ->
            /\ pc' = "read"
            /\ ret' = Pending
            /\ returned' = returned

\* A call of read_frame, up to its return or its first suspension.
ReadFrameCall ==
  /\ pc = "idle"
  /\ ParseAndReturn(buf)
  /\ UNCHANGED <<wire, peerClosed, sent, nsent, xvars>>

\* The sizes one read_buf may return when avail bytes are unread.
ReadSizes(avail) ==
  IF avail <= FineLimit THEN 1..avail ELSE (avail - MaxTail)..avail

\* ReadFrameData parsing the bytes just read alone, without those the
\* buffer already held.
ReadFrameDataAlone(n) ==
  /\ pc = "read"
  /\ n \in ReadSizes(BLen(wire))
  /\ wire' = advance(wire, n)
  /\ ParseAndReturn(Take(wire, n))
  /\ UNCHANGED <<peerClosed, sent, nsent, xvars>>

\* read_buf returns n > 0 bytes; the loop goes round to parse_frame.
ReadFrameData(n) ==
  /\ pc = "read"
  /\ n \in ReadSizes(BLen(wire))
  /\ wire' = advance(wire, n)
  /\ ParseAndReturn(Cat(buf, Take(wire, n)))
  /\ UNCHANGED <<peerClosed, sent, nsent, xvars>>

\* ReadFrameEof reporting the end of the stream whatever the buffer holds.
ReadFrameEofAlways ==
  /\ pc = "read"
  /\ wire = Empty
  /\ peerClosed
  /\ pc' = "idle"
  /\ ret' = OkNone
  /\ UNCHANGED <<wire, peerClosed, buf, last, sent, nsent, returned, xvars>>

\* ReadFrameEof going round the loop again on a read of 0 bytes.
ReadFrameEofRetry ==
  /\ pc = "read"
  /\ wire = Empty
  /\ peerClosed
  /\ UNCHANGED vars

\* Lines 102-108: read_buf returns 0, the stream is at its end.
ReadFrameEof ==
  /\ pc = "read"
  /\ wire = Empty
  /\ peerClosed
  /\ pc' = "idle"
  /\ ret' = IF BLen(buf) = 0 THEN OkNone ELSE Err(Reset)
  /\ UNCHANGED <<wire, peerClosed, buf, last, sent, nsent, returned, xvars>>

Next ==
  \/ \E item \in SmallItems : PeerSend(item)
  \/ \E item \in BigItems : PeerSend(item)
  \/ PeerClose
  \/ ReadFrameCall
  \/ \E n \in ReadSizes(BLen(wire)) : ReadFrameData(n)
  \/ ReadFrameEof

Spec == Init /\ [][Next]_vars

(***************************************************************************)
(* The read_frame loop under fair scheduling.  The peer sends finitely     *)
(* many bytes and then shuts the stream; a stream read that can complete   *)
(* (bytes are unread, or the stream is at its end) does complete: the      *)
(* runtime wakes the task suspended in read_buf.  Nothing obliges the      *)
(* owner of the connection to call read_frame.                             *)
(***************************************************************************)
FairItems ==
  { RawItem(KeepAlive, FALSE),
    RawItem(Cat(KeepAlive, KeepAlive), FALSE),
    FrameItem(Have(7), FALSE),
    FrameItem(Choke, FALSE),
    RawItem(Bytes(<<0, 0, 0, 5, 4>>), FALSE),
    RawItem(Bytes(<<0, 0>>), FALSE),
    RawItem(Bytes(<<0, 0, 0, 1, 9>>), FALSE),
    RawItem(Bytes(<<0, 1, 0, 1>>), FALSE) }

NextFair ==
  \/ \E item \in FairItems : PeerSend(item)
  \/ PeerClose
  \/ ReadFrameCall
  \/ \E n \in ReadSizes(BLen(wire)) : ReadFrameData(n)
  \/ ReadFrameEof

\* A stream read that delivers bytes to the suspended call: a ReadFrameData
\* step, which is possible exactly when ReadPossible holds.
ReadDelivers == pc = "read" /\ BLen(wire') < BLen(wire)
ReadPossible == pc = "read" /\ wire # Empty

\* Weak fairness of the peer's shutdown and of the read at the end of the
\* stream, and weak fairness of the read that delivers bytes, written out
\* (it is not for ever possible without being taken).
SpecFair ==
  /\ Init
  /\ [][NextFair]_vars
  /\ WF_vars(PeerClose)
  /\ WF_vars(ReadFrameEof)
  /\ ([]<>~ReadPossible \/ []<><<ReadDelivers>>_vars)

(***************************************************************************)
(* The write side.  Connection.stream is a BufWriter over the TcpStream: a *)
(* write appends to the writer's buffer, and the writer passes bytes on to *)
(* the stream, oldest first, when the buffer would outgrow its capacity.   *)
(* The model does not fix the capacity: at a write any prefix of what the  *)
(* writer holds may go to the stream.  flush() sends all of it.  The       *)
(* stream takes every byte it is given (the other end keeps it open).      *)
(***************************************************************************)
\* How many of the held bytes a write may pass on to the stream.
SpillSizes(held) == {0} \cup ReadSizes(held)

\* Endpoint e puts bytes on the stream.
StreamWrite(e, bytes) ==
  IF e = 1
    THEN /\ out' = Cat(out, bytes)
         /\ tx' = Cat(tx, bytes)
         /\ UNCHANGED <<wire, rx>>
    ELSE /\ wire' = Cat(wire, bytes)
         /\ rx' = Cat(rx, bytes)
         /\ UNCHANGED <<out, tx>>

\* Endpoint e's BufWriter is given bytes and passes k bytes on.
BufWrite(e, bytes, k) ==
  LET held == Cat(wbuf[e], bytes) IN
  /\ k \in SpillSizes(BLen(held))
  /\ StreamWrite(e, Take(held, k))
  /\ wbuf' = [wbuf EXCEPT ![e] = advance(held, k)]

\* stream.flush(): everything held goes to the stream.
BufFlush(e) ==
  /\ StreamWrite(e, wbuf[e])
  /\ wbuf' = [wbuf EXCEPT ![e] = Empty]

\* Connection::write_frame up to its flush: the writes of lines 187-236.
WriteFrameCall(frame, k) ==
  /\ pc = "idle"
  /\ Len(written) < MaxWrites
  /\ BufWrite(1, write_frame(frame), k)
  /\ pc' = "flush"
  /\ written' = Append(written, frame)
  /\ UNCHANGED <<peerClosed, buf, ret, last, sent, nsent, returned, hs>>

\* write_frame returning without the flush of line 238.
WriteFrameNoFlush ==
  /\ pc = "flush"
  /\ pc' = "idle"
  /\ UNCHANGED <<wire, peerClosed, buf, ret, last, sent, nsent, returned,
                 out, wbuf, hs, written, rx, tx>>

\* Lines 238-239: flush and return.
WriteFrameFlush ==
  /\ pc = "flush"
  /\ BufFlush(1)
  /\ pc' = "idle"
  /\ UNCHANGED <<peerClosed, buf, ret, last, sent, nsent, returned, hs, written>>

(***************************************************************************)
(* The handshake packet.  HandshakePacket and PEER_ID belong to the crate  *)
(* but not to the files at hand (connection.rs imports them, line 7);      *)
(* they follow section 3 of the specification: one byte holding N, the     *)
(* N-byte protocol identifier, 8 reserved zero bytes, the 20-byte info     *)
(* hash and the 20-byte peer id, read and written as one block of bytes    *)
(* (as_bytes / as_bytes_mut) without any check of their content.           *)
(***************************************************************************)
\* The protocol identifier: N bytes, the same for every endpoint.
Pstr == Bytes([i \in 1..PstrLen |-> 80])

\* The size of the packet.
PacketSize == 1 + PstrLen + 8 + 20 + 20

\* PEER_ID of the process at endpoint e.
PEER_ID(e) == Bytes([i \in 1..20 |-> 100 + e])

\* HandshakePacket::new(info_hash, peer_id).as_bytes()
HandshakePacket(info_hash, peer_id) ==
  CatAll(<< Bytes(<<PstrLen>>), Pstr, Zeros(8), info_hash, peer_id >>)

\* The fields info_hash and peer_id of a packet of PacketSize bytes.
info_hash_of(packet) == Take(advance(packet, 1 + PstrLen + 8), 20)
peer_id_of(packet) == Take(advance(packet, 1 + PstrLen + 8 + 20), 20)

\* The info hashes handshake is called with; the second ends in a zero byte.
InfoHashes == { Bytes([i \in 1..20 |-> i]), Bytes([i \in 1..20 |-> 20 - i]) }

(***************************************************************************)
(* Connection::handshake at endpoint e, split at its awaits: write_all     *)
(* into the BufWriter, flush, and the stream reads of read_exact.  While   *)
(* endpoint 1 is in handshake its task is in no other call (&mut self).    *)
(***************************************************************************)
\* The bytes on the stream for endpoint e to read, and whether the other
\* end has shut the stream (endpoint 1 never does).
StreamIn(e) == IF e = 1 THEN wire ELSE out
StreamShut(e) == IF e = 1 THEN peerClosed ELSE FALSE

\* The number of bytes endpoint e has taken from the stream so far.
StreamTaken(e) == IF e = 1 THEN BLen(rx) - BLen(wire) ELSE BLen(tx) - BLen(out)

\* Endpoint e takes n bytes from the stream.
StreamRead(e, n) ==
  IF e = 1
    THEN wire' = advance(wire, n) /\ out' = out
    ELSE out' = advance(out, n) /\ wire' = wire

\* Lines 83-87: the packet is built and handed to the BufWriter.
HandshakeCall(e, info_hash, k) ==
  /\ hs[e].pc = "new"
  /\ e = 1 => pc = "idle"
  /\ LET packet == HandshakePacket(info_hash, PEER_ID(e)) IN
     /\ BufWrite(e, packet, k)
     /\ hs' = [hs EXCEPT ![e] = [pc |-> "flush", info_hash |-> info_hash,
                                 packet |-> packet, filled |-> 0,
                                 from |-> StreamTaken(e)]]
  /\ pc' = IF e = 1 THEN "handshake" ELSE pc
  /\ UNCHANGED <<peerClosed, buf, ret, last, sent, nsent, returned, written>>

\* handshake going on to read_exact without the flush of line 88.
HandshakeNoFlush(e) ==
  /\ hs[e].pc = "flush"
  /\ hs' = [hs EXCEPT ![e].pc = "read"]
  /\ UNCHANGED <<wire, peerClosed, buf, pc, ret, last, sent, nsent, returned,
                 out, wbuf, written, rx, tx>>

\* Line 88: self.stream.flush().
HandshakeFlush(e) ==
  /\ hs[e].pc = "flush"
  /\ BufFlush(e)
  /\ hs' = [hs EXCEPT ![e].pc = "read"]
  /\ UNCHANGED <<peerClosed, buf, pc, ret, last, sent, nsent, returned, written>>

\* Filled putting each read at the start of the packet buffer.
FilledFromStart(packet, filled, bytes) ==
  Cat(bytes, advance(packet, BLen(bytes)))

\* The packet buffer with the n bytes just read behind the bytes filled so far.
Filled(packet, filled, bytes) ==
  CatAll(<< Take(packet, filled), bytes, advance(packet, filled + BLen(bytes)) >>)

\* HandshakeRead taking every unread byte off the stream and keeping the
\* n it has room for.
HandshakeReadAhead(e, n) ==
  /\ hs[e].pc = "read"
  /\ n \in ReadSizes(IF BLen(StreamIn(e)) < PacketSize - hs[e].filled
                       THEN BLen(StreamIn(e)) ELSE PacketSize - hs[e].filled)
  /\ StreamRead(e, BLen(StreamIn(e)))
  /\ LET full == hs[e].filled + n = PacketSize IN
     /\ hs' = [hs EXCEPT ![e].packet = Filled(@, hs[e].filled, Take(StreamIn(e), n)),
                         ![e].filled = @ + n,
                         ![e].pc = IF full THEN "ok" ELSE "read"]
     /\ pc' = IF e = 1 /\ full THEN "idle" ELSE pc
  /\ UNCHANGED <<peerClosed, buf, ret, last, sent, nsent, returned,
                 wbuf, written, rx, tx>>

\* Lines 89-93: one stream read of read_exact into the rest of the packet
\* buffer, n > 0 bytes; with the last byte handshake returns Ok(packet).
HandshakeRead(e, n) ==
  /\ hs[e].pc = "read"
  /\ n \in ReadSizes(IF BLen(StreamIn(e)) < PacketSize - hs[e].filled
                       THEN BLen(StreamIn(e)) ELSE PacketSize - hs[e].filled)
  /\ StreamRead(e, n)
  /\ LET full == hs[e].filled + n = PacketSize IN
     /\ hs' = [hs EXCEPT ![e].packet = Filled(@, hs[e].filled, Take(StreamIn(e), n)),
                         ![e].filled = @ + n,
                         ![e].pc = IF full THEN "ok" ELSE "read"]
     /\ pc' = IF e = 1 /\ full THEN "idle" ELSE pc
  /\ UNCHANGED <<peerClosed, buf, ret, last, sent, nsent, returned,
                 wbuf, written, rx, tx>>

\* HandshakeEof returning the packet buffer as far as it was filled.
HandshakeEofPartial(e) ==
  /\ hs[e].pc = "read"
  /\ StreamIn(e) = Empty
  /\ StreamShut(e)
  /\ hs' = [hs EXCEPT ![e].pc = "ok"]
  /\ pc' = IF e = 1 THEN "idle" ELSE pc
  /\ UNCHANGED <<wire, peerClosed, buf, ret, last, sent, nsent, returned,
                 out, wbuf, written, rx, tx>>

\* Lines 89-92: the stream ends before the packet is full; read_exact
\* fails, handshake returns the error and the packet buffer is dropped.
HandshakeEof(e) ==
  /\ hs[e].pc = "read"
  /\ StreamIn(e) = Empty
  /\ StreamShut(e)
  /\ hs' = [hs EXCEPT ![e].pc = "failed", ![e].packet = Empty]
  /\ pc' = IF e = 1 THEN "idle" ELSE pc
  /\ UNCHANGED <<wire, peerClosed, buf, ret, last, sent, nsent, returned,
                 out, wbuf, written, rx, tx>>

\* The frames write_frame is called with.
WriteFrames == SmallFrames \cup BigFrames

\* A large frame is the only frame written.
NextWrite ==
  \/ \E frame \in SmallFrames :
       \E k \in SpillSizes(BLen(wbuf[1]) + BLen(write_frame(frame))) :
         /\ \A i \in 1..Len(written) : written[i] \in SmallFrames
         /\ WriteFrameCall(frame, k)
  \/ \E frame \in BigFrames :
       \E k \in SpillSizes(BLen(wbuf[1]) + BLen(write_frame(frame))) :
         /\ written = <<>>
         /\ WriteFrameCall(frame, k)
  \/ WriteFrameFlush

\* One Connection that only writes frames.
SpecWrite == Init /\ [][NextWrite]_vars

(***************************************************************************)
(* One Connection in full: handshake, read_frame and write_frame in any    *)
(* order its task calls them, against a remote end that is not bound to    *)
(* the protocol.  The remote end sends its handshake packet, whole, cut    *)
(* short or with a frame behind it, sends frames without any handshake,    *)
(* feeds back what this end wrote, and may shut the stream at any moment.  *)
(***************************************************************************)
\* The packet a remote end that follows the protocol sends.
RemotePacket ==
  HandshakePacket(Bytes([i \in 1..20 |-> 20 - i]), PEER_ID(2))

RemoteItems ==
  { RemotePacket,
    Cat(RemotePacket, write_frame(Bitfield(Bytes(<<96, 1>>)))),
    Take(RemotePacket, 20),
    write_frame(Bitfield(Bytes(<<96, 1>>))),
    write_frame(Have(7)) }

\* The remote end writes bytes to the stream.
RemoteSend(bytes) ==
  /\ ~peerClosed
  /\ Len(sent) < MaxItems
  /\ BLen(rx) = nsent
  /\ StreamWrite(2, bytes)
  /\ sent' = Append(sent, RawItem(bytes, FALSE))
  /\ nsent' = nsent + BLen(bytes)
  /\ UNCHANGED <<peerClosed, buf, pc, ret, last, returned, wbuf, hs, written>>

\* A loopback stream: what this end wrote comes back as the remote's bytes,
\* and no other bytes do.
Loopback ==
  /\ ~peerClosed
  /\ sent = <<>>
  /\ out # Empty
  /\ wire' = Cat(wire, out)
  /\ rx' = Cat(rx, out)
  /\ out' = Empty
  /\ UNCHANGED <<peerClosed, buf, pc, ret, last, sent, nsent, returned,
                 wbuf, hs, written, tx>>

\* The frame write_frame is called with on this connection, once, and the
\* info hash handshake is called with.
ConnFrames == { Interested }
ConnHash == Bytes([i \in 1..20 |-> i])

\* One stream read of read_frame delivers all the unread bytes or the
\* first U32_SIZE of them.
ConnReadSizes(avail) == {n \in {U32_SIZE, avail} : 1 <= n /\ n <= avail}

\* At a write the BufWriter passes on nothing or all it holds.
ConnSpillSizes(held) == {0, held}

NextConn ==
  \/ \E bytes \in RemoteItems : RemoteSend(bytes)
  \/ Loopback
  \/ PeerClose
  \/ \E k \in ConnSpillSizes(BLen(wbuf[1]) + PacketSize) :
       HandshakeCall(1, ConnHash, k)
  \/ HandshakeFlush(1)
  \/ \E n \in 1..PacketSize : HandshakeRead(1, n)
  \/ HandshakeEof(1)
  \/ ReadFrameCall
  \/ \E n \in ConnReadSizes(BLen(wire)) : ReadFrameData(n)
  \/ ReadFrameEof
  \/ \E frame \in ConnFrames :
       \E k \in ConnSpillSizes(BLen(wbuf[1]) + BLen(write_frame(frame))) :
         /\ written = <<>>
         /\ WriteFrameCall(frame, k)
  \/ WriteFrameFlush

SpecConn == Init /\ [][NextConn]_vars

(***************************************************************************)
(* Two Connections, one at each end of the stream, each running handshake. *)
(* Neither end shuts the stream.  Each endpoint's task calls handshake and *)
(* is resumed when its flush or its read can go on.                        *)
(***************************************************************************)
NextDuplex ==
  \E e \in Endpoints :
    \/ \E info_hash \in InfoHashes :
         \E k \in SpillSizes(BLen(wbuf[e]) + PacketSize) :
           HandshakeCall(e, info_hash, k)
    \/ HandshakeFlush(e)
    \/ \E n \in 1..PacketSize : HandshakeRead(e, n)

\* Endpoint e's task calls handshake (a HandshakeCall step), which is
\* possible exactly when CallPossible holds.
Calls(e) == hs[e].pc = "new" /\ hs'[e].pc = "flush"
CallPossible(e) == hs[e].pc = "new" /\ (e = 1 => pc = "idle")

\* A stream read delivers bytes to endpoint e's read_exact (a HandshakeRead
\* step), which is possible exactly when HsReadPossible holds.
HsReadDelivers(e) == hs[e].pc = "read" /\ hs'[e].filled > hs[e].filled
HsReadPossible(e) == hs[e].pc = "read" /\ StreamIn(e) # Empty

\* Weak fairness of each endpoint's flush, and weak fairness of its call
\* and of its reads, written out.
SpecDuplex ==
  /\ Init
  /\ [][NextDuplex]_vars
  /\ \A e \in Endpoints :
       /\ WF_vars(HandshakeFlush(e))
       /\ ([]<>~CallPossible(e) \/ []<><<Calls(e)>>_vars)
       /\ ([]<>~HsReadPossible(e) \/ []<><<HsReadDelivers(e)>>_vars)

(***************************************************************************)
(* Vocabulary of the properties.                                           *)
(***************************************************************************)
IsPrefix(a, b) == BLen(a) <= BLen(b) /\ Take(b, BLen(a)) = a

\* b without the keep-alives (zero length prefixes) at its front.
RECURSIVE StripKA(_)
StripKA(b) ==
  IF BLen(b) >= 4 /\ Take(b, 4) = KeepAlive THEN StripKA(advance(b, 4)) ELSE b

\* The length the prefix at the front of f declares.
DeclLen(f) == from_be_bytes(f)

\* f starts with a length prefix and holds every byte that prefix announces.
Complete(f) == BLen(f) >= 4 /\ DeclLen(f) >= 1 /\ BLen(f) >= 4 + DeclLen(f)

\* Tag plus payload bytes the wire table asks of a frame with this tag.
MinLen(tag) ==
  CASE tag = 4 -> 5
    [] tag \in {6, 8} -> 13
    [] tag = 7 -> 9
    [] OTHER -> 1

FrameItems == {i \in SmallItems \cup BigItems : i.type = "frame"}

\* The frames whose encoding declares a length of at most FRAME_MAX.
ValidFrameItems == {i \in FrameItems : BLen(i.bytes) <= 4 + FRAME_MAX}

\* The buffer the most recent parse_frame call found, past its keep-alives.
LastFront == StripKA(last.in)

\* parse_frame has run at least once.
Parsed == last.res # NoCall

(***************************************************************************)
(* C1 as stated: for every Frame m, parse_frame on a buffer holding        *)
(* exactly the bytes of write_frame(m) returns Some(m) and empties the     *)
(* buffer.                                                                 *)
(***************************************************************************)
C1_RoundTripEveryFrame ==
  \A i \in FrameItems :
    (Parsed /\ last.in = i.bytes) => (last.res = OkSome(i.frame) /\ buf = Empty)

(***************************************************************************)
(* C1 amended: for every Frame m whose encoding declares a length of at    *)
(* most FRAME_MAX (tag plus payload), parse_frame on a buffer holding      *)
(* exactly the bytes of write_frame(m) returns Some(m) and empties the     *)
(* buffer; the bytes write_frame emits for a longer frame are rejected     *)
(* as too large.                                                           *)
(***************************************************************************)
C1_RoundTrip ==
  \A i \in FrameItems :
    (Parsed /\ last.in = i.bytes) =>
      IF i \in ValidFrameItems
        THEN last.res = OkSome(i.frame) /\ buf = Empty
        ELSE last.res = Err(TooLarge)

\* A piece with an empty chunk has made the round trip.
C1_Witness ==
  /\ last.in = write_frame(Piece(0, 0, Empty))
  /\ last.res = OkSome(Piece(0, 0, Empty))
  /\ buf = Empty

(***************************************************************************)
(* C2: a valid encoded frame delivered in chunks.  While only a proper     *)
(* prefix of the frame is in the buffer parse_frame returns None and       *)
(* leaves the buffer as it is, so no byte of an earlier chunk is lost;     *)
(* once the last chunk is in, read_frame returns the frame's message, the  *)
(* one it returns for the frame appended in one piece.                     *)
(***************************************************************************)
C2_Resumable ==
  \A i \in ValidFrameItems :
    /\ (Parsed /\ IsPrefix(last.in, i.bytes) /\ last.in # i.bytes)
         => (last.res = OkNone /\ buf = last.in)
    /\ sent = <<i>> =>
         \/ /\ returned = <<>>
            /\ Cat(buf, wire) = i.bytes
            /\ ret \in {NoCall, Pending}
         \/ /\ returned = <<i.frame>>
            /\ buf = Empty
            /\ wire = Empty
            /\ ret \in {OkSome(i.frame), Pending, OkNone}

\* A request frame was cut inside its second field, read_frame reported
\* nothing, and the rest of the frame is still to come.
C2_Witness ==
  /\ \E i \in ValidFrameItems : sent = <<i>> /\ i.frame.variant = "Request"
  /\ BLen(last.in) = 11
  /\ last.res = OkNone
  /\ BLen(wire) = 6

(***************************************************************************)
(* C3: the peer sends complete valid frames and keep-alives only.  Then    *)
(* the frames read_frame has returned are, in order, the first of the      *)
(* frames sent; read_frame fails on none of them; it reports the end of    *)
(* the stream only when the peer has closed and every frame sent has been  *)
(* returned; and a call that finds a complete frame at the front of the    *)
(* buffer returns it and takes nothing from the stream.                    *)
(***************************************************************************)
IsKeepAlives(item) == item.type = "raw" /\ StripKA(item.bytes) = Empty

Conforming ==
  \A k \in 1..Len(sent) : sent[k] \in ValidFrameItems \/ IsKeepAlives(sent[k])

RECURSIVE FramesOf(_)
FramesOf(items) ==
  IF items = <<>> THEN <<>>
  ELSE IF Head(items).type = "frame"
    THEN <<Head(items).frame>> \o FramesOf(Tail(items))
    ELSE FramesOf(Tail(items))

C3_InOrder ==
  Conforming =>
    /\ Len(returned) <= Len(FramesOf(sent))
    /\ returned = SubSeq(FramesOf(sent), 1, Len(returned))
    /\ ret.kind \notin {"Err", "Panic"}
    /\ ret = OkNone => (peerClosed /\ returned = FramesOf(sent))

C3_NoReadWhenBuffered ==
  \A i \in ValidFrameItems :
    (/\ pc = "idle"
     /\ IsPrefix(i.bytes, StripKA(buf))
     /\ <<buf, pc, ret, last, returned>>' # <<buf, pc, ret, last, returned>>)
    => /\ ret' = OkSome(i.frame)
       /\ returned' = Append(returned, i.frame)
       /\ pc' = "idle"
       /\ wire' = wire

\* C3: frames are returned in the order sent, then the end of the stream,
\* and a buffered frame is returned without a stream read.
C3_Sequence == []C3_InOrder /\ [][C3_NoReadWhenBuffered]_vars

\* Two different frames came in and were returned in the order sent, and
\* the call after them reported the end of the stream.
C3_Witness ==
  /\ Conforming
  /\ Len(sent) = 2
  /\ sent[1].type = "frame" /\ sent[2].type = "frame"
  /\ sent[1].frame # sent[2].frame
  /\ returned = <<sent[1].frame, sent[2].frame>>
  /\ ret = OkNone

(***************************************************************************)
(* C4: when the stream read of read_frame returns zero bytes, read_frame   *)
(* returns Ok(None) if the receive buffer is empty and fails with          *)
(* "connection reset by peer" if it is not; the buffer stays as it was.    *)
(***************************************************************************)
C4_ZeroRead ==
  (pc = "read" /\ wire = Empty /\ pc' # "read")
    => /\ ret' = (IF buf = Empty THEN OkNone ELSE Err(Reset))
       /\ buf' = buf
       /\ returned' = returned

\* C4: every read of zero bytes ends read_frame with Ok(None) if and only
\* if the buffer is empty, and with an error otherwise.
C4_EofIffEmpty == [][C4_ZeroRead]_vars

\* The peer closed after [00 00 00 05][04]: read_frame failed.
C4_Witness ==
  /\ peerClosed
  /\ buf = Bytes(<<0, 0, 0, 5, 4>>)
  /\ ret = Err(Reset)

(***************************************************************************)
(* C5: a complete frame at the front of the buffer whose declared length   *)
(* is below the size its tag requires never yields a message: extraction   *)
(* fails, whatever follows the frame in the buffer.                        *)
(***************************************************************************)
Undersized(f) ==
  /\ Complete(f)
  /\ DeclLen(f) <= FRAME_MAX
  /\ At(f, 5) \in 0..8
  /\ DeclLen(f) < MinLen(At(f, 5))

\* C5: extraction of an undersized frame returns no message.
C5_UndersizedFails ==
  (Parsed /\ Undersized(LastFront)) => last.res.kind \in {"Err", "Panic"}

(***************************************************************************)
(* C6: whenever extraction returns a message for a frame of declared       *)
(* length len, it has removed exactly the 4 + len bytes of that frame      *)
(* from the front of the buffer.                                           *)
(***************************************************************************)
C6_ConsumesWholeFrame ==
  (Parsed /\ last.res.kind = "Some")
    => buf = advance(LastFront, 4 + DeclLen(LastFront))

(***************************************************************************)
(* C7: a length prefix above FRAME_MAX at the front of the buffer makes    *)
(* extraction fail with the protocol error "too large", whether or not     *)
(* the bytes it announces are in the buffer, and leaves every byte from    *)
(* that prefix on in the buffer.                                           *)
(***************************************************************************)
C7_OversizedRejected ==
  (Parsed /\ BLen(LastFront) >= 4 /\ DeclLen(LastFront) > FRAME_MAX)
    => (last.res = Err(TooLarge) /\ buf = LastFront)

\* Rejected with all the announced bytes in the buffer.
C7_Witness ==
  /\ Parsed
  /\ Complete(LastFront)
  /\ DeclLen(LastFront) > FRAME_MAX
  /\ last.res = Err(TooLarge)
  /\ buf = LastFront

(***************************************************************************)
(* C8 as stated: no message comes from a frame of more than FRAME_MAX      *)
(* bytes in total, length prefix included.                                 *)
(***************************************************************************)
C8_TotalSizeBound ==
  (Parsed /\ last.res.kind = "Some") => 4 + DeclLen(LastFront) <= FRAME_MAX

(***************************************************************************)
(* C8 amended: the maximum is on the declared length (tag plus payload;    *)
(* 4 + 65536 bytes on the wire).  Every frame declaring more than          *)
(* FRAME_MAX is rejected, so no message comes from one, and a complete     *)
(* frame declaring FRAME_MAX or less is not rejected for its size.         *)
(***************************************************************************)
C8_DeclaredLengthBound ==
  Parsed =>
    /\ last.res.kind = "Some" => DeclLen(LastFront) <= FRAME_MAX
    /\ (BLen(LastFront) >= 4 /\ DeclLen(LastFront) > FRAME_MAX)
         => last.res.kind = "Err"
    /\ (Complete(LastFront) /\ DeclLen(LastFront) <= FRAME_MAX)
         => last.res # Err(TooLarge)

\* A message came from a frame declaring exactly FRAME_MAX.
C8_Witness ==
  /\ Parsed
  /\ DeclLen(LastFront) = FRAME_MAX
  /\ last.res.kind = "Some"

(***************************************************************************)
(* C9 as stated: a complete frame with a tag outside 0..8 fails with       *)
(* "invalid message kind", for every declared length.                      *)
(***************************************************************************)
UnknownTag(f) == Complete(f) /\ At(f, 5) \notin 0..8

\* C9 as stated: "invalid message kind" whatever the declared length.
C9_InvalidKindAlways ==
  (Parsed /\ UnknownTag(LastFront)) => last.res = Err(InvalidKind)

(***************************************************************************)
(* C9 amended: a complete frame with a tag outside 0..8 fails with a       *)
(* protocol error and yields no message: "invalid message kind" for every  *)
(* declared length up to FRAME_MAX and every payload, "too large" for a    *)
(* declared length above FRAME_MAX.                                        *)
(***************************************************************************)
C9_InvalidKind ==
  (Parsed /\ UnknownTag(LastFront)) =>
    last.res = (IF DeclLen(LastFront) <= FRAME_MAX
                  THEN Err(InvalidKind) ELSE Err(TooLarge))

\* Tag 127 with two payload bytes was refused.
C9_Witness ==
  /\ Parsed
  /\ UnknownTag(LastFront)
  /\ DeclLen(LastFront) = 3
  /\ last.res = Err(InvalidKind)

(***************************************************************************)
(* C10: keep-alives yield no message.  A buffer of n >= 1 keep-alives      *)
(* followed by a complete valid frame gives, in one extraction, that       *)
(* frame's message and loses the keep-alives and the frame, nothing more;  *)
(* a buffer of keep-alives alone gives None and ends empty.                *)
(***************************************************************************)
C10_KeepAliveSkipped ==
  Parsed =>
    /\ \A i \in ValidFrameItems :
         (last.in # LastFront /\ IsPrefix(i.bytes, LastFront))
           => /\ last.res = OkSome(i.frame)
              /\ buf = advance(LastFront, BLen(i.bytes))
    /\ (last.in # Empty /\ LastFront = Empty)
         => (last.res = OkNone /\ buf = Empty)

\* Two keep-alives and a have frame in one buffer: the have was returned.
C10_Witness ==
  /\ last.in = CatAll(<<KeepAlive, KeepAlive, write_frame(Have(7))>>)
  /\ last.res = OkSome(Have(7))
  /\ buf = Empty

(***************************************************************************)
(* C11: once an operation on the connection has failed the connection is   *)
(* closed and no later read_frame call returns a message.  Stated for the  *)
(* call that follows the failure: when the most recent read_frame call     *)
(* returned an error, the next step returns no message.                    *)
(***************************************************************************)
C11_ClosedAfterFailure ==
  [][ret.kind = "Err" => returned' = returned]_vars

(***************************************************************************)
(* C18: the receive buffer shrinks only by the extraction of a message.    *)
(* An extraction that returns None ("not enough data") or an error leaves  *)
(* the buffer as it found it.                                              *)
(***************************************************************************)
C18_ShrinksOnlyBySuccess ==
  (Parsed /\ last.res.kind \in {"None", "Err"}) => buf = last.in

(***************************************************************************)
(* The wire format table of the specification: tag and payload of each     *)
(* variant, and the frame [4-byte length][1-byte tag][payload] whose       *)
(* length counts the tag and the payload.                                  *)
(***************************************************************************)
Variants ==
  <<"Choke", "Unchoke", "Interested", "NotInterested", "Have", "Bitfield",
    "Request", "Piece", "Cancel">>

\* The tag of a variant: its place in the table, from 0.
WireTag(variant) == CHOOSE t \in 0..8 : Variants[t + 1] = variant

\* The number of payload bytes of frame m.
PayloadLen(m) ==
  CASE m.variant = "Have" -> 4
    [] m.variant = "Bitfield" -> BLen(m.bitfield)
    [] m.variant \in {"Request", "Cancel"} -> 12
    [] m.variant = "Piece" -> 8 + BLen(m.chunk)
    [] OTHER -> 0

\* The bytes b hold n as a big-endian 32-bit value.
IsBE32(b, n) ==
  /\ BLen(b) = 4
  /\ At(b, 1) * 16777216 + At(b, 2) * 65536 + At(b, 3) * 256 + At(b, 4) = n

\* The bytes of b from offset from (counted from 0), len of them.
Slice(b, from, len) == Take(advance(b, from), len)

\* The bytes e are the frame of m according to the table.
IsEncoding(e, m) ==
  /\ BLen(e) = 4 + 1 + PayloadLen(m)
  /\ IsBE32(Take(e, 4), 1 + PayloadLen(m))
  /\ At(e, 5) = WireTag(m.variant)
  /\ CASE m.variant = "Have" -> IsBE32(Slice(e, 5, 4), m.index)
       [] m.variant = "Bitfield" -> advance(e, 5) = m.bitfield
       [] m.variant \in {"Request", "Cancel"} ->
            /\ IsBE32(Slice(e, 5, 4), m.index)
            /\ IsBE32(Slice(e, 9, 4), m.begin)
            /\ IsBE32(Slice(e, 13, 4), m.length)
       [] m.variant = "Piece" ->
            /\ IsBE32(Slice(e, 5, 4), m.index)
            /\ IsBE32(Slice(e, 9, 4), m.begin)
            /\ advance(e, 13) = m.chunk
       [] OTHER -> TRUE

\* The bytes write_frame's i-th call added to what this end wrote: those
\* behind the frames of the calls before it.
RECURSIVE WrittenBefore(_)
WrittenBefore(i) ==
  IF i <= 1 THEN 0
  ELSE WrittenBefore(i - 1) + 4 + 1 + PayloadLen(written[i - 1])

(***************************************************************************)
(* C13: writes are serialized by call order and flushed before write_frame *)
(* returns.  The bytes that reached the stream followed by the bytes the   *)
(* writer still holds are, at every moment, the frames of the calls so far *)
(* in call order, each as length, tag, payload; and when no call is in     *)
(* progress the writer holds nothing, so all of them are on the stream.    *)
(***************************************************************************)
C13_SerializedAndFlushed ==
  LET all == Cat(tx, wbuf[1]) IN
  /\ BLen(all) = WrittenBefore(Len(written) + 1)
  /\ \A i \in 1..Len(written) :
       IsEncoding(Slice(all, WrittenBefore(i), 4 + 1 + PayloadLen(written[i])),
                  written[i])
  /\ pc = "idle" => wbuf[1] = Empty

\* Two different frames were written, the second call has returned and the
\* stream holds the first frame followed by the second.
C13_Witness ==
  /\ pc = "idle"
  /\ written = <<Have(7), Piece(258, 16384, Bytes(<<94, 45>>))>>
  /\ tx = Cat(write_frame(Have(7)),
              write_frame(Piece(258, 16384, Bytes(<<94, 45>>))))
  /\ wbuf[1] = Empty

(***************************************************************************)
(* C14: for every frame write_frame is called with, the bytes it writes    *)
(* are a 4-byte big-endian length equal to 1 plus the number of payload    *)
(* bytes that follow (1, 5, 1+N, 13, 9+chunk length), the tag of the wire  *)
(* table, which is the u8 conversion of the frame, and the payload with    *)
(* index, begin and length as big-endian 32-bit values; the table gives    *)
(* every variant one tag in 0..8 and no two variants the same tag.         *)
(***************************************************************************)
C14_TagAndLength ==
  /\ \A i \in 1..Len(written) :
       LET m == written[i]
           e == write_frame(m)
       IN /\ IsEncoding(e, m)
          /\ u8_from(m) = WireTag(m.variant)
          /\ from_be_bytes(e) = BLen(e) - 4
  /\ \A m1, m2 \in WriteFrames :
       /\ u8_from(m1) \in 0..8
       /\ u8_from(m1) = u8_from(m2) => m1.variant = m2.variant
  /\ {u8_from(m) : m \in WriteFrames} = 0..8

\* A piece with a chunk of two bytes was written: length prefix 11, tag 7.
C14_Witness ==
  /\ written # <<>>
  /\ written[Len(written)] = Piece(258, 16384, Bytes(<<94, 45>>))
  /\ pc = "idle"
  /\ Take(tx, 5) = Bytes(<<0, 0, 0, 11, 7>>)

(***************************************************************************)
(* Vocabulary of the handshake properties.                                 *)
(***************************************************************************)
\* The packet endpoint e's handshake call wrote.
LocalPacket(e) == HandshakePacket(hs[e].info_hash, PEER_ID(e))

\* The spec's states of endpoint e's connection.
Unestablished(e) == hs[e].pc = "new"
Handshaking(e) == hs[e].pc \in {"flush", "read"}
Established(e) == hs[e].pc = "ok"

(***************************************************************************)
(* C12: no message is read or written before Established is reached.  As   *)
(* long as the handshake of the connection has not returned a packet,      *)
(* read_frame has returned no message and the stream has been given no     *)
(* bytes besides those of the handshake packet.                            *)
(***************************************************************************)
C12_NothingBeforeEstablished ==
  ~Established(1) =>
    /\ returned = <<>>
    /\ IF Unestablished(1) THEN tx = Empty ELSE IsPrefix(tx, LocalPacket(1))

(***************************************************************************)
(* C15: handshake writes its whole packet, flushes it, and only then       *)
(* reads; it returns a packet only after exactly PacketSize bytes have     *)
(* been read, and fails, delivering no packet, when the stream ends after  *)
(* fewer bytes (none included).                                            *)
(***************************************************************************)
\* Before the flush nothing has been read into the packet buffer; from the
\* flush on the whole packet is on the stream, the last bytes written, and
\* the writer holds nothing.
C15_WriteFlushThenRead ==
  /\ hs[1].pc = "flush" => (hs[1].filled = 0 /\ hs[1].packet = LocalPacket(1))
  /\ hs[1].pc = "read" =>
       /\ wbuf[1] = Empty
       /\ BLen(tx) >= PacketSize
       /\ advance(tx, BLen(tx) - PacketSize) = LocalPacket(1)

\* A packet is returned with exactly PacketSize bytes read, a failure with
\* fewer, the stream shut and no packet.
C15_ExactSize ==
  /\ hs[1].pc = "ok" => (hs[1].filled = PacketSize /\ BLen(hs[1].packet) = PacketSize)
  /\ hs[1].pc = "read" => hs[1].filled < PacketSize
  /\ hs[1].pc = "failed" =>
       (hs[1].filled < PacketSize /\ peerClosed /\ hs[1].packet = Empty)

\* While handshake has not flushed it takes nothing from the stream, and
\* at the end of a stream that gave too few bytes its next step is to fail.
C15_Steps ==
  /\ hs[1].pc = "flush" => IsPrefix(wire, wire')
  /\ (hs[1].pc = "read" /\ wire = Empty /\ peerClosed /\ hs'[1] # hs[1])
       => hs'[1].pc = "failed"

\* C15: the order write, flush, read and the size read, in every state and step.
C15_Handshake ==
  [](C15_WriteFlushThenRead /\ C15_ExactSize) /\ [][C15_Steps]_vars

\* The stream ended 20 bytes into the packet and handshake failed.
C15_Witness ==
  /\ hs[1].pc = "failed"
  /\ hs[1].filled = 20
  /\ peerClosed

(***************************************************************************)
(* C16: the packet handshake returns is, byte for byte, the PacketSize     *)
(* bytes the remote end put on the stream behind those this end had taken  *)
(* before the call; and when these bytes are the packet the call itself    *)
(* wrote (a loopback stream), the returned packet carries the info hash    *)
(* the call was given and the peer id of this end.                         *)
(***************************************************************************)
C16_RoundTrip ==
  Established(1) =>
    LET came == Take(advance(rx, hs[1].from), PacketSize) IN
    /\ hs[1].packet = came
    /\ came = LocalPacket(1) =>
         /\ info_hash_of(hs[1].packet) = hs[1].info_hash
         /\ peer_id_of(hs[1].packet) = PEER_ID(1)

\* Over a loopback stream handshake returned the info hash it was given
\* and the peer id of its own end.
C16_Witness ==
  /\ Established(1)
  /\ sent = <<>>
  /\ written = <<>>
  /\ rx = LocalPacket(1)
  /\ info_hash_of(hs[1].packet) = ConnHash
  /\ peer_id_of(hs[1].packet) = PEER_ID(1)

(***************************************************************************)
(* C19: handshake takes exactly PacketSize bytes from the stream and       *)
(* leaves the receive buffer alone: when it returns, every byte the remote *)
(* end sent behind its packet is still on the stream, and the first        *)
(* message read_frame returns after it is the first frame the remote end   *)
(* sent behind its packet.                                                 *)
(***************************************************************************)
\* handshake does not touch the receive buffer, and the step by which it
\* returns leaves on the stream all that was sent behind the packet.
C19_Steps ==
  /\ pc = "handshake" => buf' = buf
  /\ (hs[1].pc = "read" /\ hs'[1].pc = "ok")
       => wire' = advance(rx, hs[1].from + PacketSize)

\* With nothing taken off the stream before the handshake, the first
\* message read_frame returns is the frame that came behind the packet.
C19_FirstFrame ==
  \A i \in ValidFrameItems :
    ( /\ Established(1)
      /\ hs[1].from = 0
      /\ IsPrefix(i.bytes, advance(rx, PacketSize))
      /\ returned # <<>> )
    => returned[1] = i.frame

\* C19: in every step and every state.
C19_TakesExactlyThePacket ==
  [][C19_Steps]_vars /\ []C19_FirstFrame

\* The remote end sent its packet and a bitfield in one piece; handshake
\* returned the packet and read_frame the bitfield.
C19_Witness ==
  /\ sent = <<RawItem(Cat(RemotePacket, write_frame(Bitfield(Bytes(<<96, 1>>)))), FALSE)>>
  /\ Established(1)
  /\ hs[1].packet = RemotePacket
  /\ returned = <<Bitfield(Bytes(<<96, 1>>))>>

(***************************************************************************)
(* C17: read_frame never busy-polls and always makes progress.  Every      *)
(* round of its loop that follows a stream read has taken at least one     *)
(* byte off the stream or returns; and when the peer sends finitely many   *)
(* bytes (keep-alives included) and then shuts the stream, every call      *)
(* suspended in a stream read returns, under fair delivery of the reads.   *)
(***************************************************************************)
\* A step of a suspended call takes bytes off the stream or ends the call.
C17_Round ==
  (pc = "read" /\ <<buf, last, pc, ret>>' # <<buf, last, pc, ret>>)
    => (BLen(wire') < BLen(wire) \/ pc' = "idle")

Other(e) == 3 - e

\* Endpoint e is suspended in read_exact and the stream holds nothing for it.
Blocked(e) == hs[e].pc = "read" /\ StreamIn(e) = Empty

C20_NoDeadlock ==
  /\ ~(Blocked(1) /\ Blocked(2))
  /\ \A e \in Endpoints : Blocked(e) => hs[Other(e)].pc \in {"new", "flush"}

C20_EachReturnsTheOthers ==
  \A e \in Endpoints : Established(e) => hs[e].packet = LocalPacket(Other(e))

\* C20: no deadlock, the right packets, and completion of both calls.
C20_BothComplete ==
  /\ [](C20_NoDeadlock /\ C20_EachReturnsTheOthers)
  /\ <>[](Established(1) /\ Established(2))

\* Both calls have returned, each with the info hash the other was given.
C20_Witness ==
  /\ Established(1)
  /\ Established(2)
  /\ hs[1].info_hash # hs[2].info_hash
  /\ info_hash_of(hs[1].packet) = hs[2].info_hash
  /\ info_hash_of(hs[2].packet) = hs[1].info_hash
  /\ peer_id_of(hs[1].packet) = PEER_ID(2)

====
